---- MODULE Spec2Model ----
(***************************************************************************)
(* The optimization pipeline of src/02_optimization_model.py: the three    *)
(* prepared tables on disk, main()'s stages (load, feasible range, model   *)
(* build, solve and extraction, artifact writing) and repeated runs        *)
(* (specification Spec), and the transformation of the cleaned shipment    *)
(* records into those tables by src/01_data_transformation.py              *)
(* (specification SpecPrep).                                               *)
(*                                                                         *)
(* Quantities (demand, capacity, flow) are integers in milli-kg; money is  *)
(* in milli-dollars (fixed_cost is whole dollars, cost_per_kg is whole     *)
(* dollars per kg, so flow * cost_per_kg is already in milli-dollars).     *)
(***************************************************************************)
EXTENDS Integers, Sequences, FiniteSets, TLC

VARIABLES
    disk,                \* data/ and results/: the input tables and the artifacts
    solver,              \* the MILP back-end's fixed tie-break among optimal assignments
    run,                 \* number of the current invocation of main()
    pc,                  \* position in main()
    customers_df,        \* main's locals, as returned by load_processed_data
    warehouses_df,
    transport_df,
    MIN_WAREHOUSES,
    MAX_WAREHOUSES,
    model,               \* <<>> or <<the LpProblem>>
    status,              \* pulp.LpStatus[model.status]
    objective,           \* pulp.value(model.objective) after the solve
    open_vars,           \* varValue of Open_w
    ship_vars,           \* varValue of Ship_(w,c)
    results,             \* <<>> (None) or <<the tuple solve_and_analyze returned>>
    prev,                \* <<>> or <<outcome of the previous run>>
    stages,              \* the calls main() has made so far in this run, in order
    prep,                \* state of src/01_data_transformation.py's main()
    view                 \* <<>> or <<what 03_visualization / 04_business_insights loaded>>

vars == <<disk, solver, run, pc, customers_df, warehouses_df, transport_df,
          MIN_WAREHOUSES, MAX_WAREHOUSES, model, status, objective,
          open_vars, ship_vars, results, prev, stages, prep, view>>

----------------------------------------------------------------------------
(* Bounds of the enumerated inputs *)

Tick == 52
MaxTicks == 2
MaxRuns == 2

WarehouseIds == <<"A", "B">>
CustomerIds == <<"d1", "d2">>
FixedCosts == {0, 1}
CostsPerKg == {0, 7}

(* var.varValue > 0.1 (kg), in milli-kg *)
FlowThreshold == 100

----------------------------------------------------------------------------
(* Generic helpers *)

Range(s) == {s[i] : i \in DOMAIN s}

RECURSIVE SumSeq(_)
SumSeq(s) == IF s = <<>> THEN 0 ELSE Head(s) + SumSeq(Tail(s))

RECURSIVE SumFn(_, _)
SumFn(f, S) ==
    IF S = {} THEN 0
    ELSE LET x == CHOOSE y \in S : TRUE IN f[x] + SumFn(f, S \ {x})

Max(S) == CHOOSE x \in S : \A y \in S : y <= x
Min(S) == CHOOSE x \in S : \A y \in S : x <= y
Abs(x) == IF x < 0 THEN -x ELSE x

RECURSIVE Gcd(_, _)
Gcd(a, b) == IF b = 0 THEN a ELSE Gcd(b, a % b)

RECURSIVE GcdSeq(_)
GcdSeq(s) == IF s = <<>> THEN 0 ELSE Gcd(Head(s), GcdSeq(Tail(s)))

(* Python's round(x, 2) of a non-negative amount held in thousandths.  The *)
(* enumerated amounts never end in 5 thousandths, where round() depends on *)
(* the binary representation of the float.                                 *)
Round2(x) == 10 * ((x + 5) \div 10)

----------------------------------------------------------------------------
(* Table columns *)

IdsOf(wh) == [i \in DOMAIN wh |-> wh[i].warehouse_id]
CustIdsOf(cu) == [i \in DOMAIN cu |-> cu[i].customer_id]
Capacities(wh) == [i \in DOMAIN wh |-> wh[i].monthly_capacity]
Demands(cu) == [i \in DOMAIN cu |-> cu[i].monthly_demand_kg]

(* df.loc[df[id] == x, col].values[0] *)
WarehouseRow(wh, w) == wh[Min({i \in DOMAIN wh : wh[i].warehouse_id = w})]
CustomerRow(cu, c) == cu[Min({i \in DOMAIN cu : cu[i].customer_id = c})]

(* The (w, c) pairs in the order of the nested loops over both id columns *)
PairSeq(wh, cu) ==
    LET nc == Len(cu)
    IN  [k \in 1..(Len(wh) * nc) |->
            <<wh[((k - 1) \div nc) + 1].warehouse_id,
              cu[((k - 1) % nc) + 1].customer_id>>]

HasRoute(tr, w, c) == <<w, c>> \in DOMAIN tr

----------------------------------------------------------------------------
(* calculate_capacity_constraints *)

RECURSIVE InsertDesc(_, _)
InsertDesc(x, s) ==
    IF s = <<>> THEN <<x>>
    ELSE IF x >= Head(s) THEN <<x>> \o s
    ELSE <<Head(s)>> \o InsertDesc(x, Tail(s))

(* SortDesc leaving the rows in the order of the file *)
SortDescUnsorted(s) == s

(* warehouses_df.sort_values('monthly_capacity', ascending=False), the     *)
(* capacity column of the result                                           *)
RECURSIVE SortDesc(_)
SortDesc(s) == IF s = <<>> THEN <<>> ELSE InsertDesc(Head(s), SortDesc(Tail(s)))

(* MinLoop counting one facility too many *)
RECURSIVE MinLoopOffByOne(_, _, _, _)
MinLoopOffByOne(sorted, i, current_capacity, total_demand) ==
    IF i > Len(sorted) THEN 0
    ELSE LET cc == current_capacity + sorted[i]
         IN  IF cc >= total_demand THEN i + 1
             ELSE MinLoopOffByOne(sorted, i + 1, cc, total_demand)

(* The for loop: the first i whose running capacity covers total demand;  *)
(* min_warehouses keeps its initial 0 when the loop ends without a break.  *)
RECURSIVE MinLoop(_, _, _, _)
MinLoop(sorted, i, current_capacity, total_demand) ==
    IF i > Len(sorted) THEN 0
    ELSE LET cc == current_capacity + sorted[i]
         IN  IF cc >= total_demand THEN i
             ELSE MinLoop(sorted, i + 1, cc, total_demand)

TotalDemand(cu) == SumSeq(Demands(cu))
TotalCapacity(wh) == SumSeq(Capacities(wh))

calculate_capacity_constraints(cu, wh) ==
    <<MinLoop(SortDesc(Capacities(wh)), 1, 0, TotalDemand(cu)), Len(wh)>>

----------------------------------------------------------------------------
(* build_optimization_model *)

(* .values[0] of an empty selection raises IndexError: a route the         *)
(* objective's transport term looks up has no row                          *)
RouteLookupFails(cu, wh, tr) ==
    \E k \in DOMAIN PairSeq(wh, cu) :
        ~HasRoute(tr, PairSeq(wh, cu)[k][1], PairSeq(wh, cu)[k][2])

(* ModelConstraints with the lower strategic constraint left out *)
ModelConstraintsNoMin ==
    {"demand", "capacity", "max_warehouses", "shipping_logic"}

(* The constraint groups added to the model, by the comment numbering *)
ModelConstraints ==
    {"demand", "capacity", "min_warehouses", "max_warehouses", "shipping_logic"}

build_optimization_model(cu, wh, tr, minW, maxW) ==
    LET W == Range(IdsOf(wh))
        C == Range(CustIdsOf(cu))
    IN  [ warehouses  |-> IdsOf(wh),
          customers   |-> CustIdsOf(cu),
          pairs       |-> PairSeq(wh, cu),
          fixed_cost  |-> [w \in W |-> WarehouseRow(wh, w).fixed_cost],
          capacity    |-> [w \in W |-> WarehouseRow(wh, w).monthly_capacity],
          demand      |-> [c \in C |-> CustomerRow(cu, c).monthly_demand_kg],
          cost_per_kg |-> [p \in W \X C |-> tr[p]],
          minW        |-> minW,
          maxW        |-> maxW,
          constraints |-> ModelConstraints ]

(* ObjectiveValue with the fixed-cost term left out *)
ObjectiveValueTransportOnly(m, a) ==
    SumFn([p \in DOMAIN m.cost_per_kg |-> m.cost_per_kg[p] * a.flow[p]],
          DOMAIN m.cost_per_kg)

(* fixed_cost_total + transport_cost_total, in milli-dollars *)
ObjectiveValue(m, a) ==
    SumFn([w \in DOMAIN m.capacity |-> 1000 * m.fixed_cost[w] * a.open[w]],
          DOMAIN m.capacity)
    + SumFn([p \in DOMAIN m.cost_per_kg |-> m.cost_per_kg[p] * a.flow[p]],
            DOMAIN m.cost_per_kg)

Outbound(m, flow, w) ==
    SumFn([c \in DOMAIN m.demand |-> flow[<<w, c>>]], DOMAIN m.demand)
Inbound(m, flow, c) ==
    SumFn([w \in DOMAIN m.capacity |-> flow[<<w, c>>]], DOMAIN m.capacity)
OpenCount(m, open) == SumFn(open, DOMAIN m.capacity)

(* 1. Demand satisfaction *)
DemandSatisfied(m, a) ==
    \A c \in DOMAIN m.demand : Inbound(m, a.flow, c) = m.demand[c]
(* Constraint 2 without the link to Open_w *)
CapacityRespectedNoLink(m, a) ==
    \A w \in DOMAIN m.capacity : Outbound(m, a.flow, w) <= m.capacity[w]

(* 2. Capacity constraints *)
CapacityRespected(m, a) ==
    \A w \in DOMAIN m.capacity :
        Outbound(m, a.flow, w) <= m.capacity[w] * a.open[w]
(* 3. Strategic constraints *)
MinWarehousesOpen(m, a) == OpenCount(m, a.open) >= m.minW
MaxWarehousesOpen(m, a) == OpenCount(m, a.open) <= m.maxW
(* 4. Shipping logic *)
ShippingLogic(m, a) ==
    \A p \in DOMAIN m.cost_per_kg : a.flow[p] <= a.open[p[1]] * m.capacity[p[1]]

Satisfies(m, a) ==
    /\ "demand" \in m.constraints => DemandSatisfied(m, a)
    /\ "capacity" \in m.constraints => CapacityRespected(m, a)
    /\ "min_warehouses" \in m.constraints => MinWarehousesOpen(m, a)
    /\ "max_warehouses" \in m.constraints => MaxWarehousesOpen(m, a)
    /\ "shipping_logic" \in m.constraints => ShippingLogic(m, a)

----------------------------------------------------------------------------
(* model.solve(): the MILP back-end, an exact minimiser over the flows on  *)
(* the grid spanned by the instance's capacities and demands (the vertex   *)
(* solutions of the transportation polytope lie on it).                    *)

GridStep(m) ==
    LET g == Gcd(GcdSeq([i \in DOMAIN m.warehouses |-> m.capacity[m.warehouses[i]]]),
                 GcdSeq([i \in DOMAIN m.customers |-> m.demand[m.customers[i]]]))
    IN  IF g = 0 THEN 1 ELSE g

FlowGrid(m) ==
    LET top == Max({0} \cup {m.demand[c] : c \in DOMAIN m.demand})
    IN  {k * GridStep(m) : k \in 0..(top \div GridStep(m))}

(* Ship_(w,c) has lowBound 0 and, with the other inbound flows             *)
(* non-negative, cannot exceed the demand it serves                        *)
CandidateFlows(m) ==
    {f \in [DOMAIN m.cost_per_kg -> FlowGrid(m)] :
        \A p \in DOMAIN f : f[p] <= m.demand[p[2]]}

(* Open_w is Binary. Constraint 1 reads the flows only, so the flows that  *)
(* fail it are left out before they are paired with the Open_w values.     *)
Assignments(m) ==
    [open : [DOMAIN m.capacity -> {0, 1}],
     flow : {f \in CandidateFlows(m) :
                "demand" \in m.constraints => DemandSatisfied(m, [flow |-> f])}]

FeasibleSet(m) == {a \in Assignments(m) : Satisfies(m, a)}

(* The back-end's tie-break: a total order on assignments, fixed for the   *)
(* whole life of an installation ("high" prefers, among optimal            *)
(* assignments, the one that opens the earlier facilities and routes       *)
(* through them; "low" the opposite).                                      *)
AssignmentKey(m, a) ==
    LET B  == Cardinality(FlowGrid(m)) + 1
        nw == Len(m.warehouses)
        np == Len(m.pairs)
    IN  SumSeq([i \in 1..nw |-> a.open[m.warehouses[i]] * B^(np + nw - i)])
        + SumSeq([k \in 1..np |-> (a.flow[m.pairs[k]] \div GridStep(m)) * B^(np - k)])

SolverPick(m, S, pref) ==
    LET keys == {AssignmentKey(m, a) : a \in S}
        k    == IF pref = "high" THEN Max(keys) ELSE Min(keys)
    IN  CHOOSE a \in S : AssignmentKey(m, a) = k

(* <<status, objective value, assignment>>: Optimal with a minimiser when  *)
(* the constraint set has a satisfying assignment, else Infeasible (the    *)
(* objective is bounded below, so Unbounded cannot occur).                 *)
SolveOver(m, feas, pref) ==
    IF feas = {} THEN <<"Infeasible", 0, <<>>>>
    ELSE LET best == Min({ObjectiveValue(m, a) : a \in feas})
         IN  <<"Optimal", best,
               SolverPick(m, {b \in feas : ObjectiveValue(m, b) = best}, pref)>>

Solve(m, pref) ==
    CHOOSE r \in {SolveOver(m, feas, pref) : feas \in {FeasibleSet(m)}} : TRUE

----------------------------------------------------------------------------
(* solve_and_analyze, after the status test *)

(* open_vars[warehouse].varValue > 0.5 *)
IsOpen(v) == 2 * v > 1

(* The loop over open_vars, in the order of the warehouse_id column *)
SelectedWarehouses(ids, open) ==
    LET Test(w) == IsOpen(open[w]) IN SelectSeq(ids, Test)

(* TotalFixed adding the fixed cost of every facility of the table *)
TotalFixedAll(wh, selected) ==
    SumSeq([i \in DOMAIN wh |-> 1000 * wh[i].fixed_cost])

TotalFixed(wh, selected) ==
    SumSeq([i \in DOMAIN selected |-> 1000 * WarehouseRow(wh, selected[i]).fixed_cost])

(* ShipmentKept with the test gone: every pair is appended *)
ShipmentKeptUnfiltered(value, w, selected) == value >= 0

(* var.varValue > 0.1 and w in selected_warehouses *)
(* ShipmentKept with the threshold at 0 *)
ShipmentKeptAnyPositive(value, w, selected) ==
    value > 0 /\ w \in Range(selected)

ShipmentKept(value, w, selected) ==
    value > FlowThreshold /\ w \in Range(selected)

KeptPairs(pairs, ship, selected) ==
    LET Test(p) == ShipmentKept(ship[p], p[1], selected) IN SelectSeq(pairs, Test)

(* shipments, one dict per kept pair *)
Shipments(pairs, ship, selected, tr) ==
    LET kept == KeptPairs(pairs, ship, selected)
    IN  [i \in DOMAIN kept |->
            [ from |-> kept[i][1],
              to   |-> kept[i][2],
              kg   |-> Round2(ship[kept[i]]),
              cost |-> Round2(ship[kept[i]] * tr[kept[i]]) ]]

TotalTransport(pairs, ship, selected, tr) ==
    LET kept == KeptPairs(pairs, ship, selected)
    IN  SumSeq([i \in DOMAIN kept |-> ship[kept[i]] * tr[kept[i]]])

(* usage of a selected warehouse, shipped = sum of its varValues *)
Shipped(cu, ship, w) ==
    SumSeq([i \in DOMAIN cu |-> ship[<<w, cu[i].customer_id>>]])

Analyze(cu, wh, tr, open, ship) ==
    LET selected == SelectedWarehouses(IdsOf(wh), open)
    IN  [ shipment_df         |-> Shipments(PairSeq(wh, cu), ship, selected, tr),
          selected_warehouses |-> selected,
          total_fixed         |-> TotalFixed(wh, selected),
          total_transport     |-> TotalTransport(PairSeq(wh, cu), ship, selected, tr) ]

----------------------------------------------------------------------------
(* main: the artifacts *)

(* save_optimization_summary: shipment_df['from'] raises KeyError when the *)
(* frame was built from an empty list (it has no columns) and the loop     *)
(* over opened_warehouses runs at least once                               *)
SummaryFails(res) == res.shipment_df = <<>> /\ res.selected_warehouses # <<>>

SummaryOf(res) ==
    [ opened  |-> res.selected_warehouses,
      total   |-> res.total_fixed + res.total_transport,
      shipped |-> [i \in DOMAIN res.selected_warehouses |->
                     SumSeq([k \in DOMAIN res.shipment_df |->
                        IF res.shipment_df[k].from = res.selected_warehouses[i]
                        THEN res.shipment_df[k].kg ELSE 0])] ]

(* WriteArtifacts saving the shipment plan under the route table's name *)
WriteArtifactsOverRoutes(d, res) ==
    [d EXCEPT !.inputs = <<[@[1] EXCEPT !.transport =
                    [p \in {<<res.shipment_df[k].from, res.shipment_df[k].to>> :
                                k \in DOMAIN res.shipment_df} |->
                        LET k == CHOOSE j \in DOMAIN res.shipment_df :
                                    <<res.shipment_df[j].from, res.shipment_df[j].to>> = p
                        IN  res.shipment_df[k].cost]]>>,
              !.results_txt = <<[ opened_warehouses |-> res.selected_warehouses,
                                  fixed_cost        |-> res.total_fixed,
                                  transport_cost    |-> res.total_transport ]>>,
              !.summary_txt = IF SummaryFails(res) THEN @ ELSE <<SummaryOf(res)>>]

(* The files main writes once solve_and_analyze has returned a result *)
WriteArtifacts(d, res) ==
    [d EXCEPT !.shipments_csv = <<res.shipment_df>>,
              !.results_txt = <<[ opened_warehouses |-> res.selected_warehouses,
                                  fixed_cost        |-> res.total_fixed,
                                  transport_cost    |-> res.total_transport ]>>,
              !.summary_txt = IF SummaryFails(res) THEN @ ELSE <<SummaryOf(res)>>]

----------------------------------------------------------------------------
(* The inputs: what data/ can hold when main starts *)

Quantities(lo) == {k * Tick : k \in lo..MaxTicks}

WarehouseTables ==
    UNION { { [i \in 1..n |-> [ warehouse_id     |-> WarehouseIds[i],
                                 monthly_capacity |-> cp[i],
                                 fixed_cost       |-> fc[i] ]] :
                cp \in [1..n -> Quantities(1)], fc \in [1..n -> FixedCosts] } :
            n \in 1..Len(WarehouseIds) }

CustomerTables ==
    UNION { { [i \in 1..n |-> [ customer_id       |-> CustomerIds[i],
                                 monthly_demand_kg |-> dm[i] ]] :
                dm \in [1..n -> Quantities(0)] } :
            n \in 0..Len(CustomerIds) }

NoRoutes == [p \in {} |-> 0]

(* Dense route tables, the same with the last pair's row missing, and the  *)
(* empty table                                                             *)
RouteTables(wh, cu) ==
    LET P     == Range(PairSeq(wh, cu))
        dense == [P -> CostsPerKg]
        last  == PairSeq(wh, cu)[Len(PairSeq(wh, cu))]
    IN  dense
        \cup (IF P = {} THEN {} ELSE {[p \in P \ {last} |-> f[p]] : f \in dense})
        \cup {NoRoutes}

(* The scenario of the testable properties: A (100 kg, $1000), B (50 kg,   *)
(* $400), demand 60 kg and 40 kg, route costs 2, 3, 4, 1                   *)
ScenarioInputs ==
    [ customers  |-> << [customer_id |-> "d1", monthly_demand_kg |-> 60000],
                        [customer_id |-> "d2", monthly_demand_kg |-> 40000] >>,
      warehouses |-> << [warehouse_id |-> "A", monthly_capacity |-> 100000,
                         fixed_cost |-> 1000],
                        [warehouse_id |-> "B", monthly_capacity |-> 50000,
                         fixed_cost |-> 400] >>,
      transport  |-> ( <<"A", "d1">> :> 2 @@ <<"A", "d2">> :> 3
                       @@ <<"B", "d1">> :> 4 @@ <<"B", "d2">> :> 1 ) ]

InputTables ==
    UNION { UNION { { [customers |-> cu, warehouses |-> wh, transport |-> tr] :
                        tr \in RouteTables(wh, cu) } :
                    cu \in CustomerTables } :
            wh \in WarehouseTables }
    \cup {ScenarioInputs}

----------------------------------------------------------------------------
(* src/01_data_transformation.py: from the cleaned shipment records to the *)
(* three prepared tables.                                                  *)
(*                                                                         *)
(* A float is <<>> (NaN) or <<numerator, denominator>> in lowest terms; the *)
(* enumerated weights and distances are positive, so no division by zero   *)
(* happens among floats. Strings that the code transforms are sequences of *)
(* characters.                                                             *)

MaxRecords == 2
BaseCost == 30000

NaN == <<>>
IsNaN(x) == x = NaN
Frac(n, d) == <<n \div Gcd(n, d), d \div Gcd(n, d)>>
FAdd(x, y) == IF IsNaN(x) \/ IsNaN(y) THEN NaN
              ELSE Frac(x[1] * y[2] + y[1] * x[2], x[2] * y[2])
FMul(x, y) == IF IsNaN(x) \/ IsNaN(y) THEN NaN ELSE Frac(x[1] * y[1], x[2] * y[2])
FDiv(x, y) == IF IsNaN(x) \/ IsNaN(y) THEN NaN ELSE Frac(x[1] * y[2], x[2] * y[1])

(* Series.dropna(), .sum() and .mean(): sum and mean skip NaN, the sum of  *)
(* nothing is 0 and the mean of nothing is NaN                             *)
DropNa(col) == SelectSeq(col, LAMBDA x : ~IsNaN(x))

RECURSIVE FSum(_)
FSum(col) == IF col = <<>> THEN <<0, 1>> ELSE FAdd(Head(col), FSum(Tail(col)))

SumSkipNa(col) == FSum(DropNa(col))
MeanSkipNa(col) ==
    IF DropNa(col) = <<>> THEN NaN
    ELSE FDiv(FSum(DropNa(col)), <<Len(DropNa(col)), 1>>)

(* float -> int of astype(int): truncation towards zero of a value >= 0 *)
AsInt(x) == x[1] \div x[2]

(* The origins and destinations of the enumerated records, each list in    *)
(* the order groupby sorts its keys                                        *)
Origins == <<"WH_East", "WH_West">>
Destinations ==
    << <<"B", "o", "s", "t", "o", "n">>,
       <<"N", "E", "W", " ", "Y", "O", "R", "K">>,
       <<"N", "e", "w", " ", "Y", "o", "r", "k">> >>

Weights == <<NaN, <<6, 1>>, <<48, 1>>>>
Costs == <<<<12, 1>>, <<30, 1>>>>
Distances == <<NaN, <<100, 1>>, <<300, 1>>>>

(* str.replace(' ', '_') and str.upper(), character by character *)
LowerCase ==
    <<"a", "b", "c", "d", "e", "f", "g", "h", "i", "j", "k", "l", "m",
      "n", "o", "p", "q", "r", "s", "t", "u", "v", "w", "x", "y", "z">>
UpperCase ==
    <<"A", "B", "C", "D", "E", "F", "G", "H", "I", "J", "K", "L", "M",
      "N", "O", "P", "Q", "R", "S", "T", "U", "V", "W", "X", "Y", "Z">>
StrReplace(str, old, new) == [i \in DOMAIN str |-> IF str[i] = old THEN new ELSE str[i]]
StrUpper(str) ==
    [i \in DOMAIN str |->
        IF \E k \in DOMAIN LowerCase : LowerCase[k] = str[i]
        THEN UpperCase[CHOOSE k \in DOMAIN LowerCase : LowerCase[k] = str[i]]
        ELSE str[i]]

(* 'CUST_' + Destination.str.replace(' ', '_').str.upper() *)
CustomerId(destination) ==
    <<"C", "U", "S", "T", "_">> \o StrUpper(StrReplace(destination, " ", "_"))

(* get_region: the lookup table has 'Boston' and 'New York' among its keys *)
get_region(city) ==
    IF city \in {<<"B", "o", "s", "t", "o", "n">>,
                 <<"N", "e", "w", " ", "Y", "o", "r", "k">>}
    THEN "Northeast" ELSE "Other"

(* The rows of one group of a groupby on col, and a column of rows *)
Group(df, col, key) == SelectSeq(df, LAMBDA r : r[col] = key)
Column(rows, col) == [i \in DOMAIN rows |-> rows[i][col]]

(* The sorted group keys of a groupby, and Series.unique() up to row order *)
Present(keys, df, col) ==
    SelectSeq(keys, LAMBDA k : \E i \in DOMAIN df : df[i][col] = k)

create_customer_demand(shipments_df) ==
    LET keys == Present(Destinations, shipments_df, "Destination")
    IN  [g \in DOMAIN keys |->
            [ customer_id |-> CustomerId(keys[g]),
              city        |-> keys[g],
              region      |-> get_region(keys[g]),
              monthly_demand_kg |->
                  FDiv(SumSkipNa(Column(Group(shipments_df, "Destination", keys[g]),
                                        "Weight_kg")),
                       <<12, 1>>) ]]

(* (total_weight / 12 * 1.25).astype(int) *)
MonthlyCapacity(total_weight) ==
    AsInt(FMul(FDiv(total_weight, <<12, 1>>), <<5, 4>>))

WarehouseCapacities(shipments_df) ==
    LET keys == Present(Origins, shipments_df, "Origin_Warehouse")
    IN  [g \in DOMAIN keys |->
            MonthlyCapacity(SumSkipNa(Column(Group(shipments_df, "Origin_Warehouse",
                                                   keys[g]),
                                             "Weight_kg")))]

(* monthly_capacity / monthly_capacity.mean() is NaN in every row when all *)
(* capacities are 0, and astype(int) raises on NaN                         *)
WarehouseDataFails(shipments_df) == SumSeq(WarehouseCapacities(shipments_df)) = 0

create_warehouse_data(shipments_df) ==
    LET keys == Present(Origins, shipments_df, "Origin_Warehouse")
        cap  == WarehouseCapacities(shipments_df)
    IN  [g \in DOMAIN keys |->
            [ warehouse_id     |-> keys[g],
              monthly_capacity |-> cap[g],
              fixed_cost       |->
                  AsInt(FMul(<<BaseCost, 1>>,
                             FDiv(<<cap[g], 1>>, MeanSkipNa([i \in DOMAIN cap |-> <<cap[i], 1>>])))) ]]

(* groupby(['Origin_Warehouse', 'Destination']) with the three means and   *)
(* cost_per_kg, left-merged onto the cross product of the origins and the  *)
(* destinations that occur: the row of a pair without shipments is all NaN *)
MergedData(shipments_df) ==
    LET ws == Present(Origins, shipments_df, "Origin_Warehouse")
        cs == Present(Destinations, shipments_df, "Destination")
    IN  [k \in 1..(Len(ws) * Len(cs)) |->
            LET w == ws[((k - 1) \div Len(cs)) + 1]
                c == cs[((k - 1) % Len(cs)) + 1]
                rows == Group(Group(shipments_df, "Origin_Warehouse", w),
                              "Destination", c)
                mean(col) == MeanSkipNa(Column(rows, col))
            IN  [ Origin_Warehouse |-> w,
                  Destination      |-> c,
                  Cost             |-> mean("Cost"),
                  Weight_kg        |-> mean("Weight_kg"),
                  Distance_miles   |-> mean("Distance_miles"),
                  cost_per_kg      |-> FDiv(mean("Cost"), mean("Weight_kg")) ]]

(* (merged_data['Cost'] / merged_data['Distance_miles']).mean() *)
AvgMileCost(merged_data) ==
    MeanSkipNa([k \in DOMAIN merged_data |->
                    FDiv(merged_data[k].Cost, merged_data[k].Distance_miles)])

(* Series.fillna(other): the other series' value where this one is NaN *)
FillNa(x, other) == IF IsNaN(x) THEN other ELSE x

create_transportation_costs(shipments_df) ==
    LET merged_data   == MergedData(shipments_df)
        avg_mile_cost == AvgMileCost(merged_data)
        mean_weight   == MeanSkipNa([k \in DOMAIN merged_data |-> merged_data[k].Weight_kg])
    IN  [k \in DOMAIN merged_data |->
            LET estimated_cost == FMul(merged_data[k].Distance_miles, avg_mile_cost)
                estimated_cost_per_kg == FDiv(estimated_cost, mean_weight)
            IN  [ from_warehouse |-> merged_data[k].Origin_Warehouse,
                  to_customer_id |-> CustomerId(merged_data[k].Destination),
                  cost_per_kg    |-> FillNa(merged_data[k].cost_per_kg,
                                            estimated_cost_per_kg),
                  Distance_miles |-> merged_data[k].Distance_miles ]]

(* DataFrame.isnull().any().any() over the float columns of a table *)
HasNull(table, cols) == \E i \in DOMAIN table : \E col \in cols : IsNaN(table[i][col])

(* validate_data: the warnings it prints; it returns nothing. Every        *)
(* required column is present in the tables the three functions build, and *)
(* the facility table holds integers only.                                 *)
validate_data(cu, wh, tr) ==
    (IF HasNull(cu, {"monthly_demand_kg"})
     THEN {"Warning: Missing values in customers data"} ELSE {})
    \cup (IF HasNull(tr, {"cost_per_kg", "Distance_miles"})
          THEN {"Warning: Missing values in transport data"} ELSE {})

(* The cleaned frames load_and_clean_data can return: Cost is never NaN.   *)
(* Row order only decides the row order of the tables, so one order of     *)
(* each multiset of records is enumerated.                                 *)
RecordList ==
    LET nO == Len(Origins)
        nD == Len(Destinations)
        nW == Len(Weights)
        nC == Len(Costs)
    IN  [k \in 1..(nO * nD * nW * nC * Len(Distances)) |->
            [ Origin_Warehouse |-> Origins[((k - 1) % nO) + 1],
              Destination      |-> Destinations[(((k - 1) \div nO) % nD) + 1],
              Weight_kg        |-> Weights[(((k - 1) \div (nO * nD)) % nW) + 1],
              Cost             |-> Costs[(((k - 1) \div (nO * nD * nW)) % nC) + 1],
              Distance_miles   |-> Distances[((k - 1) \div (nO * nD * nW * nC)) + 1] ]]

RECURSIVE RowChoices(_)
RowChoices(n) ==
    IF n = 0 THEN {<<>>}
    ELSE {Append(ix, k) : ix \in RowChoices(n - 1), k \in DOMAIN RecordList}

RawFrames(maxRecords) ==
    { [i \in DOMAIN ix |-> RecordList[ix[i]]] :
        ix \in { f \in UNION {RowChoices(n) : n \in 1..maxRecords} :
                    \A i \in 1..(Len(f) - 1) : f[i] <= f[i + 1] } }

(* main()'s locals before and outside a run of the transformation *)
PrepIdle ==
    [ pc |-> "idle", df |-> <<>>, customers_df |-> <<>>, warehouses_df |-> <<>>,
      transport_df |-> <<>>, findings |-> {}, saved |-> <<>> ]

EmptyDisk ==
    [inputs |-> <<>>, shipments_csv |-> <<>>, results_txt |-> <<>>, summary_txt |-> <<>>]

----------------------------------------------------------------------------
(* main *)

LocalsCleared ==
    /\ customers_df = <<>>
    /\ warehouses_df = <<>>
    /\ transport_df = NoRoutes
    /\ MIN_WAREHOUSES = 0
    /\ MAX_WAREHOUSES = 0
    /\ model = <<>>
    /\ status = "Not Solved"
    /\ objective = 0
    /\ open_vars = <<>>
    /\ ship_vars = <<>>
    /\ results = <<>>

Init ==
    /\ disk \in {EmptyDisk} \cup {[EmptyDisk EXCEPT !.inputs = <<t>>] : t \in InputTables}
    /\ solver \in {"high", "low"}
    /\ run = 1
    /\ pc = "start"
    /\ prev = <<>>
    /\ stages = <<>>
    /\ prep = PrepIdle
    /\ LocalsCleared
    /\ view = <<>>

(* load_processed_data whose failure main does not test: the run goes on *)
(* with empty tables                                                     *)
LoadUnchecked ==
    /\ pc = "start"
    /\ customers_df' = IF disk.inputs = <<>> THEN <<>> ELSE disk.inputs[1].customers
    /\ warehouses_df' = IF disk.inputs = <<>> THEN <<>> ELSE disk.inputs[1].warehouses
    /\ transport_df' = IF disk.inputs = <<>> THEN <<>> ELSE disk.inputs[1].transport
    /\ pc' = "loaded"
    /\ stages' = Append(stages, "load_processed_data")
    /\ UNCHANGED <<disk, solver, run, MIN_WAREHOUSES, MAX_WAREHOUSES, model, status,
                   objective, open_vars, ship_vars, results, prev, prep, view>>

(* load_processed_data and the test of its result *)
Load ==
    /\ pc = "start"
    /\ IF disk.inputs = <<>>
       THEN /\ pc' = "done"
            /\ UNCHANGED <<customers_df, warehouses_df, transport_df>>
       ELSE /\ customers_df' = disk.inputs[1].customers
            /\ warehouses_df' = disk.inputs[1].warehouses
            /\ transport_df' = disk.inputs[1].transport
            /\ pc' = "loaded"
    /\ stages' = Append(stages, "load_processed_data")
    /\ UNCHANGED <<disk, solver, run, MIN_WAREHOUSES, MAX_WAREHOUSES, model, status,
                   objective, open_vars, ship_vars, results, prev, prep, view>>

CalculateCapacityConstraints ==
    /\ pc = "loaded"
    /\ MIN_WAREHOUSES' = calculate_capacity_constraints(customers_df, warehouses_df)[1]
    /\ MAX_WAREHOUSES' = calculate_capacity_constraints(customers_df, warehouses_df)[2]
    /\ pc' = "ranged"
    /\ stages' = Append(stages, "calculate_capacity_constraints")
    /\ UNCHANGED <<disk, solver, run, customers_df, warehouses_df, transport_df, model,
                   status, objective, open_vars, ship_vars, results, prev, prep, view>>

BuildOptimizationModel ==
    /\ pc = "ranged"
    /\ IF RouteLookupFails(customers_df, warehouses_df, transport_df)
       THEN /\ pc' = "crashed"
            /\ UNCHANGED model
       ELSE /\ model' = <<build_optimization_model(customers_df, warehouses_df,
                              transport_df, MIN_WAREHOUSES, MAX_WAREHOUSES)>>
            /\ pc' = "built"
    /\ stages' = Append(stages, "build_optimization_model")
    /\ UNCHANGED <<disk, solver, run, customers_df, warehouses_df, transport_df,
                   MIN_WAREHOUSES, MAX_WAREHOUSES, status, objective, open_vars,
                   ship_vars, results, prev, prep, view>>

SolveAndAnalyze ==
    /\ pc = "built"
    /\ \E sol \in {Solve(model[1], solver)} :
           /\ status' = sol[1]
           /\ objective' = sol[2]
           /\ stages' = stages \o <<"model.solve">>
                            \o (IF sol[1] = "Optimal" THEN <<"extract">> ELSE <<>>)
           /\ IF sol[1] = "Optimal"
              THEN /\ open_vars' = sol[3].open
                   /\ ship_vars' = sol[3].flow
                   /\ results' = <<Analyze(customers_df, warehouses_df, transport_df,
                                           sol[3].open, sol[3].flow)>>
              ELSE /\ results' = <<>>
                   /\ UNCHANGED <<open_vars, ship_vars>>
    /\ pc' = "solved"
    /\ UNCHANGED <<disk, solver, run, customers_df, warehouses_df, transport_df,
                   MIN_WAREHOUSES, MAX_WAREHOUSES, model, prev, prep, view>>

(* if results: write the artifacts and the summary *)
SaveResults ==
    /\ pc = "solved"
    /\ results # <<>>
    /\ disk' = WriteArtifacts(disk, results[1])
    /\ pc' = IF SummaryFails(results[1]) THEN "crashed" ELSE "done"
    /\ stages' = Append(stages, "save_results")
    /\ UNCHANGED <<solver, run, customers_df, warehouses_df, transport_df,
                   MIN_WAREHOUSES, MAX_WAREHOUSES, model, status, objective,
                   open_vars, ship_vars, results, prev, prep, view>>

(* An else branch that writes a results file without a solution *)
FailureArtifactsStub(d) ==
    [d EXCEPT !.results_txt = <<[opened_warehouses |-> <<>>,
                                 fixed_cost |-> 0,
                                 transport_cost |-> 0]>>]

(* What the else branch leaves in data/ and results/: it only prints *)
FailureArtifacts(d) == d

(* An else branch that hands the model back to the solver *)
AfterFailureRetry == "built"

(* Where main() goes after the else branch: it returns None *)

AfterFailure == "done"

(* else: "Optimization failed", return None *)
ReportFailure ==
    /\ pc = "solved"
    /\ results = <<>>
    /\ disk' = FailureArtifacts(disk)
    /\ pc' = AfterFailure
    /\ UNCHANGED <<solver, run, customers_df, warehouses_df, transport_df,
                   MIN_WAREHOUSES, MAX_WAREHOUSES, model, status, objective,
                   open_vars, ship_vars, results, prev, stages, prep, view>>

Outcome ==
    [ ended     |-> pc,
      status    |-> status,
      objective |-> objective,
      returned  |-> results # <<>>,
      selected  |-> IF results = <<>> THEN {} ELSE Range(results[1].selected_warehouses) ]

(* The script is started again on the same data/ folder *)
Rerun ==
    /\ pc \in {"done", "crashed"}
    /\ run < MaxRuns
    /\ run' = run + 1
    /\ prev' = <<Outcome>>
    /\ pc' = "start"
    /\ customers_df' = <<>>
    /\ warehouses_df' = <<>>
    /\ transport_df' = NoRoutes
    /\ MIN_WAREHOUSES' = 0
    /\ MAX_WAREHOUSES' = 0
    /\ model' = <<>>
    /\ status' = "Not Solved"
    /\ objective' = 0
    /\ open_vars' = <<>>
    /\ ship_vars' = <<>>
    /\ results' = <<>>
    /\ stages' = <<>>
    /\ UNCHANGED <<disk, solver, prep, view>>

Next ==
    \/ Load
    \/ CalculateCapacityConstraints
    \/ BuildOptimizationModel
    \/ SolveAndAnalyze
    \/ SaveResults
    \/ ReportFailure
    \/ Rerun

Spec == Init /\ [][Next]_vars

----------------------------------------------------------------------------
(* main of src/01_data_transformation.py, from the cleaned frame on *)

mainVars == <<disk, solver, run, pc, customers_df, warehouses_df, transport_df,
              MIN_WAREHOUSES, MAX_WAREHOUSES, model, status, objective,
              open_vars, ship_vars, results, prev, stages, view>>

InitPrep ==
    /\ disk = EmptyDisk
    /\ solver = "high"
    /\ run = 1
    /\ pc = "start"
    /\ prev = <<>>
    /\ stages = <<>>
    /\ LocalsCleared
    /\ prep \in {[PrepIdle EXCEPT !.pc = "cleaned", !.df = df] : df \in RawFrames(MaxRecords)}
    /\ view = <<>>

CreateCustomerDemand ==
    /\ prep.pc = "cleaned"
    /\ prep' = [prep EXCEPT !.customers_df = create_customer_demand(prep.df),
                            !.pc = "customers"]
    /\ UNCHANGED mainVars

CreateWarehouseData ==
    /\ prep.pc = "customers"
    /\ prep' = IF WarehouseDataFails(prep.df)
               THEN [prep EXCEPT !.pc = "crashed"]
               ELSE [prep EXCEPT !.warehouses_df = create_warehouse_data(prep.df),
                                 !.pc = "warehouses"]
    /\ UNCHANGED mainVars

CreateTransportationCosts ==
    /\ prep.pc = "warehouses"
    /\ prep' = [prep EXCEPT !.transport_df = create_transportation_costs(prep.df),
                            !.pc = "transport"]
    /\ UNCHANGED mainVars

ValidateData ==
    /\ prep.pc = "transport"
    /\ prep' = [prep EXCEPT !.findings = validate_data(prep.customers_df,
                                                       prep.warehouses_df,
                                                       prep.transport_df),
                            !.pc = "validated"]
    /\ UNCHANGED mainVars

(* save_processed_data: the three tables as they are written to data/ *)
SaveProcessedData ==
    /\ prep.pc = "validated"
    /\ prep' = [prep EXCEPT !.saved = <<[ customers  |-> prep.customers_df,
                                          warehouses |-> prep.warehouses_df,
                                          transport  |-> prep.transport_df ]>>,
                            !.pc = "done"]
    /\ UNCHANGED mainVars

NextPrep ==
    \/ CreateCustomerDemand
    \/ CreateWarehouseData
    \/ CreateTransportationCosts
    \/ ValidateData
    \/ SaveProcessedData

SpecPrep == InitPrep /\ [][NextPrep]_vars

----------------------------------------------------------------------------
(* main of src/02_optimization_model.py up to the built model, for the     *)
(* properties of the constraint set                                        *)

InitBuild == Init /\ solver = "high"

NextBuild ==
    \/ Load
    \/ CalculateCapacityConstraints
    \/ BuildOptimizationModel

SpecBuild == InitBuild /\ [][NextBuild]_vars

----------------------------------------------------------------------------
(* Properties *)

Returned == results # <<>>

(* |x - ref| <= 1e-6 * |ref| *)
WithinRelTol(x, ref) == Abs(x - ref) * 1000000 <= Abs(ref)

(* Sum of the kg column of the shipment plan over the rows into c *)
ExtractedInbound(plan, c) ==
    SumSeq([k \in DOMAIN plan |-> IF plan[k].to = c THEN plan[k].kg ELSE 0])

(* The contract's preconditions on the loaded tables: non-empty tables, a  *)
(* dense route table, enough aggregate capacity (capacities are positive   *)
(* and route costs non-negative in every enumerated table)                 *)
WellFormedInputs ==
    /\ customers_df # <<>>
    /\ warehouses_df # <<>>
    /\ ~RouteLookupFails(customers_df, warehouses_df, transport_df)
    /\ TotalCapacity(warehouses_df) >= TotalDemand(customers_df)

(* C1: on well-formed inputs with total capacity >= total demand, the run  *)
(* reaches solver status Optimal and solve_and_analyze returns a solution. *)
Thm_C1 ==
    (pc \in {"solved", "done", "crashed"} /\ WellFormedInputs)
        => (status = "Optimal" /\ Returned)

(* The tight case: two facilities whose whole capacity is needed *)
Wit_C1 ==
    /\ pc = "solved"
    /\ WellFormedInputs
    /\ Len(warehouses_df) = 2
    /\ TotalDemand(customers_df) > 0
    /\ TotalCapacity(warehouses_df) = TotalDemand(customers_df)
    /\ status = "Optimal"
    /\ Returned

(* C2: in every returned solution, for every demand point the kg of the    *)
(* extracted shipments into it sum to its demand within 1e-6 relative.     *)
Cex_C2 ==
    Returned =>
        \A i \in DOMAIN customers_df :
            WithinRelTol(ExtractedInbound(results[1].shipment_df,
                                          customers_df[i].customer_id),
                         customers_df[i].monthly_demand_kg)

(* C3: in every returned solution, each activated facility ships at most   *)
(* its capacity and has utilization strictly above 0.                      *)
Cex_C3 ==
    Returned =>
        \A i \in DOMAIN results[1].selected_warehouses :
            LET w == results[1].selected_warehouses[i]
            IN  /\ Shipped(customers_df, ship_vars, w)
                     <= WarehouseRow(warehouses_df, w).monthly_capacity
                /\ Shipped(customers_df, ship_vars, w) > 0

(* C4: in every returned solution, every row of the shipment plan starts   *)
(* at a facility of the activated-facility list.                           *)
Thm_C4 ==
    Returned =>
        \A k \in DOMAIN results[1].shipment_df :
            results[1].shipment_df[k].from \in Range(results[1].selected_warehouses)

Wit_C4 ==
    /\ Returned
    /\ results[1].shipment_df # <<>>
    /\ Len(results[1].selected_warehouses) < Len(warehouses_df)

(* C5: for every Optimal result, the returned fixed-cost total plus the    *)
(* returned transport-cost total equals the objective value within         *)
(* tolerance, and so do the fixed_cost and transport_cost written to disk. *)
Cex_C5 ==
    /\ Returned =>
          WithinRelTol(results[1].total_fixed + results[1].total_transport, objective)
    /\ (Returned /\ pc \in {"done", "crashed"} /\ disk.results_txt # <<>>) =>
          WithinRelTol(disk.results_txt[1].fixed_cost
                       + disk.results_txt[1].transport_cost, objective)

(* C6: in every returned solution, the number of activated facilities is   *)
(* between the MIN_WAREHOUSES and MAX_WAREHOUSES computed for that run.    *)
Thm_C6 ==
    Returned =>
        /\ MIN_WAREHOUSES <= Len(results[1].selected_warehouses)
        /\ Len(results[1].selected_warehouses) <= MAX_WAREHOUSES

(* The lower bound is what keeps a facility open: nothing is demanded and  *)
(* every facility has a positive fixed cost                                *)
Wit_C6 ==
    /\ Returned
    /\ customers_df # <<>>
    /\ TotalDemand(customers_df) = 0
    /\ \A i \in DOMAIN warehouses_df : warehouses_df[i].fixed_cost > 0
    /\ MIN_WAREHOUSES = 1
    /\ MAX_WAREHOUSES = 2
    /\ Len(results[1].selected_warehouses) = 1


InScenario ==
    /\ customers_df = ScenarioInputs.customers
    /\ warehouses_df = ScenarioInputs.warehouses
    /\ transport_df = ScenarioInputs.transport

(* C7: on the scenario instance the solution activates only A, routes the  *)
(* whole demand of both points through A, costs 1240 in total, and every   *)
(* assignment satisfying the constraints that opens B costs strictly more. *)
Thm_C7 ==
    (InScenario /\ pc \in {"solved", "done", "crashed"}) =>
        /\ status = "Optimal"
        /\ Returned
        /\ results[1].selected_warehouses = <<"A">>
        /\ results[1].shipment_df =
              << [from |-> "A", to |-> "d1", kg |-> 60000, cost |-> 120000],
                 [from |-> "A", to |-> "d2", kg |-> 40000, cost |-> 120000] >>
        /\ objective = 1240000
        /\ results[1].total_fixed + results[1].total_transport = 1240000
        /\ \A a \in FeasibleSet(model[1]) :
              a.open["B"] = 1 => ObjectiveValue(model[1], a) > 1240000

Wit_C7 ==
    /\ InScenario
    /\ pc = "done"
    /\ Returned
    /\ \E a \in FeasibleSet(model[1]) : a.open["B"] = 1

(* The open-sets of the optimal assignments of a built model *)
OptimalOpenSets(m) ==
    LET feas == FeasibleSet(m)
        best == Min({ObjectiveValue(m, a) : a \in feas})
    IN  {{w \in DOMAIN a.open : a.open[w] = 1} :
            a \in {b \in feas : ObjectiveValue(m, b) = best}}

Cex_C9 ==
    (warehouses_df # <<>>
     /\ TotalCapacity(warehouses_df) < TotalDemand(customers_df))
        => (model = <<>> /\ status = "Not Solved")

(* C10: with an empty customer, facility or route table, or with a         *)
(* (facility, demand point) pair that has no route row,                    *)
(* build_optimization_model returns no model.                              *)
Cex_C10 ==
    (pc \notin {"start", "loaded", "ranged"}
     /\ (\/ customers_df = <<>>
         \/ warehouses_df = <<>>
         \/ DOMAIN transport_df = {}
         \/ RouteLookupFails(customers_df, warehouses_df, transport_df)))
        => model = <<>>

(* Number of calls of model.solve() in a stage log *)
SolveCount(log) == Cardinality({i \in DOMAIN log : log[i] = "model.solve"})

Solved == SolveCount(stages) > 0

(* C12: once the solver has ended with a status other than Optimal,        *)
(* solve_and_analyze returns no solution, no variable value is handed on,  *)
(* and no step of the run changes data/ or results/.                       *)
Thm_C12 ==
    [][ (SolveCount(stages') > 0 /\ status' # "Optimal")
            => (results' = <<>> /\ open_vars' = <<>> /\ ship_vars' = <<>>
                /\ disk' = disk) ]_vars

(* A second run that ended Infeasible, with none of the three artifacts on *)
(* disk                                                                    *)
Wit_C12 ==
    /\ run = 2
    /\ pc = "done"
    /\ Solved
    /\ status = "Infeasible"
    /\ disk.shipments_csv = <<>>
    /\ disk.results_txt = <<>>
    /\ disk.summary_txt = <<>>

(* C13: within one run model.solve() is called at most once, and after it *)
(* has returned no step solves again or changes MIN_WAREHOUSES,            *)
(* MAX_WAREHOUSES, the model or the status.                                *)
Thm_C13 ==
    [][ run' = run
            => /\ SolveCount(stages') <= 1
               /\ Solved => /\ SolveCount(stages') = 1
                            /\ model' = model
                            /\ MIN_WAREHOUSES' = MIN_WAREHOUSES
                            /\ MAX_WAREHOUSES' = MAX_WAREHOUSES
                            /\ status' = status ]_vars

(* main has returned after an Infeasible solve of a model that carries the *)
(* computed bounds                                                         *)
Wit_C13 ==
    /\ pc = "done"
    /\ status = "Infeasible"
    /\ SolveCount(stages) = 1
    /\ model # <<>>
    /\ model[1].minW = MIN_WAREHOUSES
    /\ model[1].maxW = MAX_WAREHOUSES

(* C14: solve_and_analyze never returns a result whose fixed-plus-         *)
(* transport total is off the objective beyond tolerance, or in which an   *)
(* activated facility ships nothing.                                       *)
Cex_C14 ==
    Returned =>
        /\ WithinRelTol(results[1].total_fixed + results[1].total_transport,
                        objective)
        /\ \A i \in DOMAIN results[1].selected_warehouses :
              Shipped(customers_df, ship_vars, results[1].selected_warehouses[i]) > 0

(* Sum of the k largest facility capacities *)
TopCapacity(wh, k) == SumSeq(SubSeq(SortDesc(Capacities(wh)), 1, k))

(* C19: when total capacity >= total demand, MIN_WAREHOUSES is the         *)
(* smallest k such that the k largest capacities sum to at least total     *)
(* demand, and no set of fewer facilities has that much capacity.          *)
Cex_C19 ==
    (pc \notin {"start", "loaded"}
     /\ warehouses_df # <<>>
     /\ customers_df # <<>>
     /\ TotalCapacity(warehouses_df) >= TotalDemand(customers_df))
        => /\ MIN_WAREHOUSES =
                Min({k \in 0..Len(warehouses_df) :
                        TopCapacity(warehouses_df, k) >= TotalDemand(customers_df)})
           /\ \A S \in SUBSET DOMAIN warehouses_df :
                 Cardinality(S) < MIN_WAREHOUSES =>
                    SumFn([i \in S |-> warehouses_df[i].monthly_capacity], S)
                        < TotalDemand(customers_df)

(* The calls main makes, in the order of the source *)
StageOrder ==
    <<"load_processed_data", "calculate_capacity_constraints",
      "build_optimization_model", "model.solve", "extract", "save_results">>

(* C20: the stages of a run happen in the order load, range estimate,      *)
(* build, solve, extract, each at most once; model.solve() is called only  *)
(* on a model that carries every constraint group, and variable values and *)
(* results exist only once the solve has returned.                         *)
Thm_C20 ==
    /\ Len(stages) <= Len(StageOrder)
    /\ \A i \in DOMAIN stages : stages[i] = StageOrder[i]
    /\ Solved =>
          /\ model # <<>>
          /\ model[1].constraints =
                {"demand", "capacity", "min_warehouses", "max_warehouses",
                 "shipping_logic"}
          /\ model[1].minW = MIN_WAREHOUSES
          /\ model[1].maxW = MAX_WAREHOUSES
    /\ (open_vars # <<>> \/ ship_vars # <<>> \/ Returned) =>
          (Solved /\ status = "Optimal")
    /\ Returned <=> (\E i \in DOMAIN stages : stages[i] = "extract")

(* A run that went through all the stages and wrote its artifacts *)
Wit_C20 ==
    /\ pc = "done"
    /\ stages = StageOrder
    /\ Returned
    /\ results[1].shipment_df # <<>>

PrepReached(stage) ==
    prep.pc \in CASE stage = "customers" ->
                        {"customers", "warehouses", "transport", "validated", "done", "crashed"}
                  [] stage = "warehouses" -> {"warehouses", "transport", "validated", "done"}
                  [] stage = "transport" -> {"transport", "validated", "done"}
                  [] stage = "validated" -> {"validated", "done"}

(* Every record carries a weight and a distance *)
CompleteRecords ==
    \A i \in DOMAIN prep.df :
        ~IsNaN(prep.df[i].Weight_kg) /\ ~IsNaN(prep.df[i].Distance_miles)

(* C11: when a required column of the prepared tables holds a missing     *)
(* value, the transformation stops at validate_data and the tables are not *)
(* saved.                                                                  *)
Cex_C11 ==
    (PrepReached("validated")
     /\ CompleteRecords
     /\ HasNull(prep.transport_df, {"cost_per_kg"}))
        => prep.saved = <<>>

(* C15: the route table has exactly one row for every pair of an origin    *)
(* and a destination that occur in the records, and no row has a missing   *)
(* cost_per_kg.                                                            *)
Cex_C15 ==
    (PrepReached("transport") /\ CompleteRecords) =>
        LET ws == {prep.df[i].Origin_Warehouse : i \in DOMAIN prep.df}
            cs == {prep.df[i].Destination : i \in DOMAIN prep.df}
            tr == prep.transport_df
        IN  /\ Len(tr) = Cardinality(ws \X cs)
            /\ \A w \in ws, c \in cs :
                  \E k \in DOMAIN tr : /\ tr[k].from_warehouse = w
                                       /\ tr[k].to_customer_id = CustomerId(c)
            /\ \A k \in DOMAIN tr : ~IsNaN(tr[k].cost_per_kg)

(* C16: when no pair of origin and destination has both an observed cost   *)
(* and an observed distance, create_transportation_costs returns no route  *)
(* table.                                                                  *)
Cex_C16 ==
    (PrepReached("transport")
     /\ \A i \in DOMAIN prep.df : /\ ~IsNaN(prep.df[i].Weight_kg)
                                   /\ IsNaN(prep.df[i].Distance_miles))
        => prep.transport_df = <<>>

(* C17: the customer_id values of the demand-point table are pairwise      *)
(* distinct.                                                               *)
Cex_C17 ==
    (PrepReached("customers") /\ CompleteRecords) =>
        \A i, j \in DOMAIN prep.customers_df :
            i # j => prep.customers_df[i].customer_id # prep.customers_df[j].customer_id

(* C18: when every record has a positive weight, every facility row has a  *)
(* monthly_capacity > 0 and a fixed_cost >= 0.                             *)
Cex_C18 ==
    (PrepReached("warehouses")
     /\ \A i \in DOMAIN prep.df : ~IsNaN(prep.df[i].Weight_kg))
        => \A g \in DOMAIN prep.warehouses_df :
              /\ prep.warehouses_df[g].monthly_capacity > 0
              /\ prep.warehouses_df[g].fixed_cost >= 0

(* src/03_visualization.py and src/04_business_insights.py: what their     *)
(* loaders read from data/                                                  *)

(* pd.read_csv raises EmptyDataError on the file an empty, column-less      *)
(* shipment frame was written to                                            *)
ShipmentsUnreadable(d) == d.shipments_csv # <<>> /\ d.shipments_csv[1] = <<>>

(* The try block of load_visualization_data and load_optimization_results:  *)
(* the three input tables, the shipment file and the three lines of the     *)
(* results file, read in this order. The function returns None (<<>>) on    *)
(* FileNotFoundError and lets any other exception through.                  *)
LoadArtifacts(d) ==
    IF d.inputs = <<>> \/ d.shipments_csv = <<>>
    THEN [raised |-> "FileNotFoundError", returned |-> <<>>]
    ELSE IF ShipmentsUnreadable(d)
    THEN [raised |-> "EmptyDataError", returned |-> <<>>]
    ELSE IF d.results_txt = <<>>
    THEN [raised |-> "FileNotFoundError", returned |-> <<>>]
    ELSE [ raised   |-> "",
           returned |-> <<[ customers_df      |-> d.inputs[1].customers,
                            warehouses_df     |-> d.inputs[1].warehouses,
                            transport_df      |-> d.inputs[1].transport,
                            shipment_df       |-> d.shipments_csv[1],
                            opened_warehouses |-> d.results_txt[1].opened_warehouses,
                            total_cost        |-> d.results_txt[1].fixed_cost
                                                     + d.results_txt[1].transport_cost,
                            fixed_cost        |-> d.results_txt[1].fixed_cost,
                            transport_cost    |-> d.results_txt[1].transport_cost ]>> ]

load_visualization_data(d) == LoadArtifacts(d)
load_optimization_results(d) == LoadArtifacts(d)

(* The prepared tables of the pipeline runs: one facility without a fixed   *)
(* cost, one demand point, a route between them                             *)
PipelineInputTables ==
    { t \in InputTables : /\ Len(t.warehouses) = 1
                          /\ Len(t.customers) = 1
                          /\ t.warehouses[1].fixed_cost = 0
                          /\ DOMAIN t.transport = Range(PairSeq(t.warehouses, t.customers)) }

InitPipeline ==
    /\ disk \in {[EmptyDisk EXCEPT !.inputs = <<t>>] : t \in PipelineInputTables}
    /\ solver = "high"
    /\ run = 1
    /\ pc = "start"
    /\ prev = <<>>
    /\ stages = <<>>
    /\ prep = PrepIdle
    /\ view = <<>>
    /\ LocalsCleared

(* 03_visualization.py's main() up to the test of the loader's result, run  *)
(* after 02_optimization_model.py has ended                                 *)
LoadVisualizationData ==
    /\ pc \in {"done", "crashed"}
    /\ view = <<>>
    /\ view' = <<[stage |-> "03_visualization", data |-> load_visualization_data(disk)]>>
    /\ UNCHANGED <<disk, solver, run, pc, customers_df, warehouses_df, transport_df,
                   MIN_WAREHOUSES, MAX_WAREHOUSES, model, status, objective,
                   open_vars, ship_vars, results, prev, stages, prep>>

(* 04_business_insights.py's main() up to the test of the loader's result   *)
LoadOptimizationResults ==
    /\ pc \in {"done", "crashed"}
    /\ view # <<>>
    /\ view[1].stage = "03_visualization"
    /\ view' = <<[stage |-> "04_business_insights", data |-> load_optimization_results(disk)]>>
    /\ UNCHANGED <<disk, solver, run, pc, customers_df, warehouses_df, transport_df,
                   MIN_WAREHOUSES, MAX_WAREHOUSES, model, status, objective,
                   open_vars, ship_vars, results, prev, stages, prep>>

(* The pipeline is run again from its first stage: save_processed_data      *)
(* overwrites the three prepared tables and 02_optimization_model.py starts *)
RunPipelineAgain ==
    /\ pc \in {"done", "crashed"}
    /\ run < MaxRuns
    /\ \E t \in PipelineInputTables : disk' = [disk EXCEPT !.inputs = <<t>>]
    /\ run' = run + 1
    /\ prev' = <<Outcome>>
    /\ pc' = "start"
    /\ customers_df' = <<>>
    /\ warehouses_df' = <<>>
    /\ transport_df' = NoRoutes
    /\ MIN_WAREHOUSES' = 0
    /\ MAX_WAREHOUSES' = 0
    /\ model' = <<>>
    /\ status' = "Not Solved"
    /\ objective' = 0
    /\ open_vars' = <<>>
    /\ ship_vars' = <<>>
    /\ results' = <<>>
    /\ stages' = <<>>
    /\ view' = <<>>
    /\ UNCHANGED <<solver, prep>>

NextPipeline ==
    \/ Load
    \/ CalculateCapacityConstraints
    \/ BuildOptimizationModel
    \/ SolveAndAnalyze
    \/ SaveResults
    \/ ReportFailure
    \/ LoadVisualizationData
    \/ LoadOptimizationResults
    \/ RunPipelineAgain

SpecPipeline == InitPipeline /\ [][NextPipeline]_vars

(* The range estimator alone, on facility tables of up to three rows *)
RangeWarehouseIds == <<"A", "B", "C">>

RangeWarehouseTables ==
    UNION { { [i \in 1..n |-> [ warehouse_id     |-> RangeWarehouseIds[i],
                                 monthly_capacity |-> cp[i],
                                 fixed_cost       |-> fc[i] ]] :
                cp \in [1..n -> Quantities(1)], fc \in [1..n -> FixedCosts] } :
            n \in 1..Len(RangeWarehouseIds) }

RangeInputTables ==
    { [ customers  |-> cu,
        warehouses |-> wh,
        transport  |-> [p \in Range(PairSeq(wh, cu)) |-> CHOOSE c \in CostsPerKg : c > 0] ] :
        cu \in CustomerTables, wh \in RangeWarehouseTables }

InitRange ==
    /\ disk \in {[EmptyDisk EXCEPT !.inputs = <<t>>] : t \in RangeInputTables}
    /\ solver = "high"
    /\ run = 1
    /\ pc = "start"
    /\ prev = <<>>
    /\ stages = <<>>
    /\ prep = PrepIdle
    /\ LocalsCleared
    /\ view = <<>>

NextRange ==
    \/ Load
    \/ CalculateCapacityConstraints

SpecRange == InitRange /\ [][NextRange]_vars

(* The built model with some constraint groups left out *)
Without(m, groups) == [m EXCEPT !.constraints = @ \ groups]

(* <<status, optimal objective value>> of a model *)
Optimum(m) ==
    CHOOSE r \in {<<SolveOver(m, feas, "high")[1], SolveOver(m, feas, "high")[2]>> :
                    feas \in {FeasibleSet(m)}} : TRUE

(* C21: the model built with constraint 4 (flow <= open * capacity per     *)
(* route) and the same model without it have the same feasible assignments *)
(* and the same optimal objective value.                                   *)
Thm_C21 ==
    model # <<>> =>
        /\ FeasibleSet(model[1]) = FeasibleSet(Without(model[1], {"shipping_logic"}))
        /\ Optimum(model[1]) = Optimum(Without(model[1], {"shipping_logic"}))

(* A built model with two facilities, a feasible assignment that keeps one *)
(* of them closed, and candidate assignments that constraint 4 rejects     *)
Wit_C21 ==
    /\ model # <<>>
    /\ Len(model[1].warehouses) = 2
    /\ FeasibleSet(model[1]) # {}
    /\ \E a \in FeasibleSet(model[1]) : \E w \in DOMAIN a.open : a.open[w] = 0
    /\ \E a \in Assignments(model[1]) : ~ShippingLogic(model[1], a)

(* C24: when total demand is positive, every assignment that satisfies     *)
(* demand equality and capacity linkage opens at least MIN_WAREHOUSES      *)
(* facilities, and the model without the lower bound has the same optimal  *)
(* objective value.                                                        *)
Thm_C24 ==
    (model # <<>> /\ TotalDemand(customers_df) > 0) =>
        /\ \A a \in FeasibleSet([model[1] EXCEPT !.constraints = {"demand", "capacity"}]) :
              OpenCount(model[1], a.open) >= model[1].minW
        /\ Optimum(model[1]) = Optimum(Without(model[1], {"min_warehouses"}))

(* Positive demand that needs both facilities *)
Wit_C24 ==
    /\ model # <<>>
    /\ TotalDemand(customers_df) > 0
    /\ model[1].minW = 2
    /\ FeasibleSet(model[1]) # {}

(* C22: the shipment plan holds exactly the pairs whose solved flow        *)
(* exceeds 0.1 kg, each once, in the order of the pairs; the kg and cost   *)
(* of a row are the flow and flow * cost_per_kg rounded to two decimals.   *)
Thm_C22 ==
    Returned =>
        LET plan  == results[1].shipment_df
            pairs == SelectSeq(model[1].pairs, LAMBDA p : ship_vars[p] > FlowThreshold)
        IN  /\ Len(plan) = Len(pairs)
            /\ \A i \in DOMAIN plan :
                  /\ <<plan[i].from, plan[i].to>> = pairs[i]
                  /\ plan[i].kg = Round2(ship_vars[pairs[i]])
                  /\ plan[i].cost = Round2(ship_vars[pairs[i]] * transport_df[pairs[i]])

(* A plan with a row whose exact cost has more than two decimals, from a   *)
(* solution that also has a positive flow of at most 0.1 kg                *)
Wit_C22 ==
    /\ Returned
    /\ \E i \in DOMAIN results[1].shipment_df :
          /\ results[1].shipment_df[i].cost > 0
          /\ results[1].shipment_df[i].cost
                # ship_vars[<<results[1].shipment_df[i].from,
                              results[1].shipment_df[i].to>>]
                  * transport_df[<<results[1].shipment_df[i].from,
                                   results[1].shipment_df[i].to>>]
    /\ \E p \in DOMAIN ship_vars : ship_vars[p] > 0 /\ ship_vars[p] <= FlowThreshold

(* C22 as stated: the cost of every row is exactly flow * cost_per_kg. *)
Cex_C22 ==
    Returned =>
        \A i \in DOMAIN results[1].shipment_df :
            results[1].shipment_df[i].cost
                = ship_vars[<<results[1].shipment_df[i].from,
                              results[1].shipment_df[i].to>>]
                  * transport_df[<<results[1].shipment_df[i].from,
                                   results[1].shipment_df[i].to>>]

(* C25: total_fixed + total_transport of a returned result never exceeds  *)
(* the objective value (route costs are non-negative in every enumerated   *)
(* table), and total_fixed is exactly the fixed-cost part of the           *)
(* objective.                                                              *)
Thm_C25 ==
    Returned =>
        /\ \A p \in DOMAIN transport_df : transport_df[p] >= 0
        /\ results[1].total_fixed + results[1].total_transport <= objective
        /\ results[1].total_fixed =
              SumFn([w \in DOMAIN open_vars |->
                        1000 * model[1].fixed_cost[w] * open_vars[w]],
                    DOMAIN open_vars)

(* A result strictly below the objective: a flow of at most 0.1 kg on a    *)
(* route with a positive cost was dropped, next to a closed facility with  *)
(* a positive fixed cost                                                   *)
Wit_C25 ==
    /\ Returned
    /\ results[1].total_fixed + results[1].total_transport < objective
    /\ \E w \in DOMAIN open_vars : open_vars[w] = 0 /\ model[1].fixed_cost[w] > 0

(* C27: when the prepared input files are missing, a run calls nothing     *)
(* but load_processed_data, ends without a model, a solve or a result, and *)
(* leaves the solution artifacts as they were.                             *)
Thm_C27 ==
    disk.inputs = <<>> =>
        /\ pc \in {"start", "done"}
        /\ stages \in {<<>>, <<"load_processed_data">>}
        /\ pc = "done" => stages = <<"load_processed_data">>
        /\ customers_df = <<>> /\ warehouses_df = <<>>
        /\ MIN_WAREHOUSES = 0 /\ MAX_WAREHOUSES = 0
        /\ model = <<>>
        /\ status = "Not Solved"
        /\ ~Returned
        /\ disk = EmptyDisk

(* The second run on a data/ folder without the input files has ended *)
Wit_C27 ==
    /\ disk.inputs = <<>>
    /\ run = 2
    /\ pc = "done"

Perms(n) == {f \in [1..n -> 1..n] : Range(f) = 1..n}

(* C26: the (min, max) pair of calculate_capacity_constraints is the same  *)
(* for every permutation of the rows of the facility table and for every   *)
(* demand table with the same total demand.                                *)
Thm_C26 ==
    pc = "ranged" =>
        \A f \in Perms(Len(warehouses_df)) :
            \A cu \in CustomerTables :
                TotalDemand(cu) = TotalDemand(customers_df) =>
                    calculate_capacity_constraints(
                        cu, [i \in DOMAIN warehouses_df |-> warehouses_df[f[i]]])
                      = <<MIN_WAREHOUSES, MAX_WAREHOUSES>>

(* Three facilities in ascending order of capacity, two of them of equal   *)
(* capacity, and a demand the largest facility covers alone                *)
Wit_C26 ==
    /\ pc = "ranged"
    /\ Len(warehouses_df) = 3
    /\ warehouses_df[1].monthly_capacity = warehouses_df[2].monthly_capacity
    /\ warehouses_df[2].monthly_capacity < warehouses_df[3].monthly_capacity
    /\ warehouses_df[1].fixed_cost # warehouses_df[2].fixed_cost
    /\ TotalDemand(customers_df) > warehouses_df[1].monthly_capacity
    /\ MIN_WAREHOUSES = 1

(* C28: what the visualization and business-insights stages load is a      *)
(* solution only when the optimization run on the input tables now in data/ *)
(* ended Optimal.                                                           *)
Cex_C28 ==
    (view # <<>> /\ view[1].data.returned # <<>>) => status = "Optimal"

====
